---- MODULE Spec2Model ----
(***************************************************************************)
(* The CHIP-8 interpreter of src/Chip8EMU.c as a state machine.            *)
(*                                                                         *)
(* The state is struct chip8 (memory, V, I, pc, the two timers, gfx, key,  *)
(* stack, sp) together with the locals of main that survive a loop         *)
(* iteration (opcode, and last_time as the flag `elapsed`), the position   *)
(* of the emulation loop (loc), a history of the last two executed         *)
(* instructions (hist) and the count of calls less returns (nest); the     *)
(* last two change nothing and let the properties speak about "the         *)
(* instruction just executed" and "the calls outstanding".                 *)
(***************************************************************************)
EXTENDS Integers, Sequences, FiniteSets, TLC

----------------------------------------------------------------------------
(* Sizes fixed by the source.                                              *)

SCREEN_WIDTH == 64
SCREEN_HEIGHT == 32
MemSize == 4096
NumRegs == 16
NumKeys == 16
StackSize == 16
RomBase == 512
GfxSize == SCREEN_WIDTH * SCREEN_HEIGHT

(* Bounds of the model.                                                    *)

\* rand() % 256 is drawn from the MaxRand + 1 sample bytes 0, 85, 170, ...
MaxRand == 3
\* the host presses and releases the keys of the keypad keys 0 .. MaxKey
MaxKey == 1
\* the arithmetic programs use registers 0 .. MaxReg and register 15
MaxReg == 1

Regs == 0 .. (NumRegs - 1)

----------------------------------------------------------------------------
(* Byte arithmetic.                                                        *)

\* bit i of v
Bit(v, i) == (v \div (2 ^ i)) % 2

\* The byte whose bit i is b[i].
Weigh(b) ==
    b[0] + 2 * b[1] + 4 * b[2] + 8 * b[3]
    + 16 * b[4] + 32 * b[5] + 64 * b[6] + 128 * b[7]

\* a & b
And8(a, b) == Weigh([i \in 0 .. 7 |-> Bit(a, i) * Bit(b, i)])

\* a | b
Or8(a, b) ==
    Weigh([i \in 0 .. 7 |-> (Bit(a, i) + Bit(b, i)) - (Bit(a, i) * Bit(b, i))])

\* a ^ b
Xor8(a, b) == Weigh([i \in 0 .. 7 |-> (Bit(a, i) + Bit(b, i)) % 2])

----------------------------------------------------------------------------
(* Decoding: the fields of a 16-bit opcode.                                *)

Op_n(op) == op % 16
Op_nn(op) == op % 256
Op_nnn(op) == op % 4096
Op_x(op) == (op \div 256) % 16
Op_y(op) == (op \div 16) % 16
Op_verify(op) == op \div 4096

----------------------------------------------------------------------------
(* Program images.  A ROM is a sequence of 16-bit opcodes; load_rom copies *)
(* its bytes, most significant byte first, to memory[0x200 ...].           *)

RomByte(rom, i) ==
    LET w == rom[(i \div 2) + 1]
    IN IF i % 2 = 0 THEN w \div 256 ELSE w % 256

LoadRom(rom) ==
    [a \in 0 .. (MemSize - 1) |->
        IF a >= RomBase /\ a < RomBase + 2 * Len(rom)
        THEN RomByte(rom, a - RomBase)
        ELSE 0]

\* The registers the arithmetic programs name.
RegSample == (0 .. MaxReg) \cup {15}

\* V[x] = rand, V[y] = rand, 8XYn, then a jump to itself
AluRom(x, y, n) ==
    << \hC0FF + (256 * x), \hC0FF + (256 * y),
       \h8000 + (256 * x) + (16 * y) + n, \h1206 >>

AluRoms == {AluRom(x, y, n) : x \in RegSample, y \in RegSample, n \in {4, 5, 6, 7, 14}}

\* two instructions, then a jump to itself
RomAddTwice == << \h6005, \h7003, \h1204 >>

\* a subroutine that calls itself without end
RomRecurse == << \h2200 >>

\* nested calls, then more returns than calls
RomNest == << \h2202, \h2204, \h2206, \h00EE, \h00EE, \h00EE, \h00EE, \h120E >>

\* a call of a subroutine that returns at once
RomCallReturn == << \h2206, \h6A01, \h1204, \h00EE, \h1208 >>

\* a return with nothing on the stack
RomReturnFirst == << \h00EE, \h1202 >>

\* a return with nothing on the stack, then a call
RomReturnCall == << \h00EE, \h2204, \h1204 >>

\* jumps and a call to the last byte of memory
RomJumpEnd == << \h1FFF >>
RomJumpOffsetEnd == << \h60FF, \hBFFF >>
RomCallEnd == << \h2FFF >>

\* an add in the last two bytes of memory, reached by a jump
RomAddAtEnd ==
    [i \in 1 .. ((MemSize - RomBase) \div 2) |->
        IF i = 1 THEN \h1FFE
        ELSE IF i = (MemSize - RomBase) \div 2 THEN \h7001
        ELSE 0]

\* a sprite, a BCD store, a dump and a load with I at the end of memory
RomSpriteEnd == << \hC0FF, \hC1FF, \hAFFF, \hD012, \h1208 >>
RomBcdEnd == << \hC0FF, \hC1FF, \hAFFE, \hF033, \hF133, \h120A >>
RomDumpLoadEnd == << \hC0FF, \hC1FF, \hC2FF, \hAFFE, \hF255, \hF265, \h120C >>

\* a BCD store inside memory
RomBcd == << \hC0FF, \hA300, \hF033, \h1206 >>

\* dump and load inside memory
RomDumpLoad ==
    << \hC0FF, \hC1FF, \hA300, \hF255, \hF265, \h120A >>

\* two sprites drawn over each other at a random position
RomDraw ==
    << \hC0FF, \h7015, \hC1FF, \h7115, \hA214, \hD012, \hA216, \hD013,
       \h00E0, \h1212, \hC182, \h8142 >>

\* wait for a key, then the timers and the key skips
RomKeys ==
    << \hF00A, \hF015, \hF018, \hF107, \hE09E, \hE0A1, \hF01E, \hF029, \h1210 >>

\* the key skips on a random key
RomKeySkip == << \hC00F, \hE09E, \h1200, \hE0A1, \h1200, \h1200 >>

\* opcodes no branch of their group names, run on a machine that is not blank
RomUnknown ==
    << \h2202, \hC0FF, \h6108, \hF115, \hF118, \hA200, \hD012,
       \h0123, \h8018, \h801F, \hE012, \hF0FF, \hF100, \h121A >>

\* the two timers set to different values, then read
RomTimers == << \h6002, \h6105, \hF015, \hF118, \hF207, \h1208 >>

\* one instruction of each of the sixteen groups
RomAllGroups ==
    << \h00E0, \h3000, \h1204, \h4000, \h5010, \h120A, \h9010, \h6105,
       \h7101, \h8010, \hA300, \hC00F, \hD011, \hE09E, \hF007, \h2222,
       \h1220, \h6000, \hB228, \h1226, \h1228 >>

\* both timers set, then a wait for a key
RomWaitTimer == << \h6003, \hF015, \hF018, \hF10A, \h1208 >>

\* The programs that read the keypad, by FX0A, EX9E or EXA1, or by a draw
\* whose gfx index runs past gfx into key.
KeypadRoms == {RomKeys, RomKeySkip, RomDraw, RomSpriteEnd, RomWaitTimer}

\* The keys the host touches while a program runs: none while a program
\* runs that never reads the keypad.
HostKeys(rom) == IF rom \in KeypadRoms THEN 0 .. MaxKey ELSE {}

Roms ==
    AluRoms
    \cup { RomAddTwice, RomRecurse, RomNest, RomCallReturn, RomReturnFirst,
           RomReturnCall,
           RomJumpEnd, RomJumpOffsetEnd, RomCallEnd, RomAddAtEnd,
           RomSpriteEnd, RomBcdEnd, RomDumpLoadEnd, RomBcd, RomDumpLoad, RomDraw,
           RomKeys, RomKeySkip, RomUnknown, RomTimers, RomWaitTimer, RomAllGroups }

----------------------------------------------------------------------------
(* State.                                                                  *)

VARIABLES
    memory,       \* uint8_t memory[4096]
    V,            \* uint8_t V[16]
    I,            \* uint16_t I
    pc,           \* uint16_t pc
    delay_timer,  \* uint8_t delay_timer
    sound_timer,  \* uint8_t sound_timer
    gfx,          \* uint8_t gfx[64 * 32]
    key,          \* uint8_t key[16]
    stack,        \* uint16_t stack[16]
    sp,           \* uint8_t sp
    opcode,       \* uint16_t opcode, a local of main that outlives an iteration
    elapsed,      \* whether SDL_GetTicks() - last_time >= 16 at the next test
    host,         \* the keypad keys whose host keys are pressed or released in this run
    event,        \* SDL_Event event, the event SDL_PollEvent stored last
    loc,          \* position of main: "timer", "input", "cpu", "wait", "drain", or an exit
    hist,         \* the last two executed instructions, each with the state it found
    nest          \* the calls (2NNN) executed so far minus the returns (00EE)

vars ==
    <<memory, V, I, pc, delay_timer, sound_timer, gfx, key, stack, sp,
      opcode, elapsed, host, event, loc, hist, nest>>

chip8 ==
    [memory |-> memory, V |-> V, I |-> I, pc |-> pc,
     delay_timer |-> delay_timer, sound_timer |-> sound_timer,
     gfx |-> gfx, key |-> key, stack |-> stack, sp |-> sp]

\* The value of `event` outside the loops that poll: none is held.
NoEvent == <<"none", 0>>

Init ==
    /\ \E rom \in Roms : memory = LoadRom(rom) /\ host = HostKeys(rom)
    /\ V = [i \in Regs |-> 0]
    /\ I = 0
    /\ pc = RomBase
    /\ delay_timer = 0
    /\ sound_timer = 0
    /\ gfx = [i \in 0 .. (GfxSize - 1) |-> 0]
    /\ key = [i \in 0 .. (NumKeys - 1) |-> 0]
    /\ stack = [i \in 0 .. (StackSize - 1) |-> 0]
    /\ sp = 0
    /\ opcode = 0
    /\ elapsed \in BOOLEAN
    /\ event = NoEvent
    /\ loc = "timer"
    /\ hist = << >>
    /\ nest = 0

----------------------------------------------------------------------------
(* Timer update at the head of the emulation loop.                         *)

\* the decrement without its test
TimerDecWrap(t) == (t - 1) % 256

TimerDec(t) == IF t > 0 THEN t - 1 ELSE t

TimerUpdate ==
    /\ loc = "timer"
    /\ delay_timer' = IF elapsed THEN TimerDec(delay_timer) ELSE delay_timer
    /\ sound_timer' = IF elapsed THEN TimerDec(sound_timer) ELSE sound_timer
    /\ elapsed' = FALSE
    /\ loc' = "input"
    /\ UNCHANGED <<memory, V, I, pc, gfx, key, stack, sp, opcode, event, hist, nest, host>>

----------------------------------------------------------------------------
(* Host events.  An event is <<type, keypad index>>: "quit", "keydown" or  *)
(* "keyup" of the host key mapped to a keypad key, or "other" (any other   *)
(* event, or a host key outside keymap).  SDL_PollEvent hands over one     *)
(* pending event, or reports that none is pending.                         *)

Events ==
    {<<"quit", 0>>, <<"other", 0>>}
    \cup {<<t, k>> : t \in {"keydown", "keyup"}, k \in host}

\* handle_input, lines 95-106: a key event sets or clears its latch
KeyLatch(k, ev) ==
    IF ev[1] = "keydown" THEN [k EXCEPT ![ev[2]] = 1]
    ELSE IF ev[1] = "keyup" THEN [k EXCEPT ![ev[2]] = 0]
    ELSE k

\* handle_input: one pass of while (SDL_PollEvent(&event)); quit ends the process.
HandleInput ==
    /\ loc = "input"
    /\ \E ev \in Events :
         /\ event' = ev
         /\ key' = KeyLatch(key, ev)
         /\ loc' = IF ev[1] = "quit" THEN "quit" ELSE "input"
    /\ UNCHANGED <<memory, V, I, pc, delay_timer, sound_timer, gfx, stack, sp,
                   opcode, elapsed, hist, nest, host>>

\* handle_input returns when no event is pending.
InputDone ==
    /\ loc = "input"
    /\ loc' = "cpu"
    /\ event' = NoEvent
    /\ UNCHANGED <<memory, V, I, pc, delay_timer, sound_timer, gfx, key, stack, sp,
                   opcode, elapsed, hist, nest, host>>

----------------------------------------------------------------------------
(* Array accesses.  The source indexes memory, gfx and key without a bound *)
(* check.  An index past the end of an array is undefined behaviour; its   *)
(* outcome is chosen per instruction from UB: with `alias` the access      *)
(* lands on the byte that follows the array in struct chip8 (memory is     *)
(* followed by V; gfx is followed by key, stack and sp, and key by stack   *)
(* and sp; a stack entry keeps its low byte first), otherwise, and for any *)
(* byte outside the fields modelled here, a read yields `byte` and a write *)
(* is lost.                                                                *)

OobBytes == {0, 1}
UB == [alias : BOOLEAN, byte : OobBytes]

\* memory[addr]
MemRead(m, addr, u) ==
    IF addr < MemSize THEN m.memory[addr]
    ELSE IF u.alias /\ addr - MemSize < NumRegs THEN m.V[addr - MemSize]
    ELSE u.byte

\* memory[addr] = val
MemWrite(m, addr, val, u) ==
    IF addr < MemSize THEN [m EXCEPT !.memory[addr] = val]
    ELSE IF u.alias /\ addr - MemSize < NumRegs THEN [m EXCEPT !.V[addr - MemSize] = val]
    ELSE m

\* The byte j places after key[0] in struct chip8: key, then stack, then sp.
TailTracked(j) == j < NumKeys + 2 * StackSize + 1

TailByte(m, j) ==
    IF j < NumKeys THEN m.key[j]
    ELSE IF j < NumKeys + 2 * StackSize
         THEN LET e == m.stack[(j - NumKeys) \div 2]
              IN IF (j - NumKeys) % 2 = 0 THEN e % 256 ELSE e \div 256
    ELSE m.sp

\* That byte with its bit 0 inverted (byte ^= 1).
TailFlip(m, j) ==
    IF j < NumKeys THEN [m EXCEPT !.key[j] = Xor8(@, 1)]
    ELSE IF j < NumKeys + 2 * StackSize
         THEN LET i == (j - NumKeys) \div 2
                  e == m.stack[i]
              IN IF (j - NumKeys) % 2 = 0
                 THEN [m EXCEPT !.stack[i] = (e \div 256) * 256 + Xor8(e % 256, 1)]
                 ELSE [m EXCEPT !.stack[i] = Xor8(e \div 256, 1) * 256 + (e % 256)]
    ELSE [m EXCEPT !.sp = Xor8(@, 1)]

\* gfx[index]
GfxRead(m, index, u) ==
    IF index < GfxSize THEN m.gfx[index]
    ELSE IF u.alias /\ TailTracked(index - GfxSize) THEN TailByte(m, index - GfxSize)
    ELSE u.byte

\* gfx[index] ^= 1
GfxFlip(m, index, u) ==
    IF index < GfxSize THEN [m EXCEPT !.gfx[index] = Xor8(@, 1)]
    ELSE IF u.alias /\ TailTracked(index - GfxSize) THEN TailFlip(m, index - GfxSize)
    ELSE m

\* key[k]
KeyRead(m, k, u) ==
    IF k < NumKeys THEN m.key[k]
    ELSE IF u.alias /\ TailTracked(k) THEN TailByte(m, k)
    ELSE u.byte

----------------------------------------------------------------------------
(* The instructions.  Each operator maps the machine m (struct chip8 after *)
(* the fetch has advanced pc) to the machine the instruction leaves.       *)

\* 00E0: memset(gfx, 0)
ClearScreen(m) == [m EXCEPT !.gfx = [i \in 0 .. (GfxSize - 1) |-> 0]]

\* 00EE: sp--
Return(m) == [m EXCEPT !.sp = (m.sp - 1) % 256]

\* 1NNN
Jump(m, nnn) == [m EXCEPT !.pc = nnn]

\* 2NNN, taken when sp < 16
Call(m, nnn) ==
    [m EXCEPT !.stack[m.sp] = m.pc, !.sp = m.sp + 1, !.pc = nnn]

\* pc += 2 of the skip instructions
Skip(m, cond) == IF cond THEN [m EXCEPT !.pc = (m.pc + 2) % 65536] ELSE m

\* 6XNN
LoadImm(m, x, nn) == [m EXCEPT !.V[x] = nn]

\* 7XNN
AddImm(m, x, nn) == [m EXCEPT !.V[x] = (m.V[x] + nn) % 256]

\* 8XY4 with the operands read again after the flag is written
AddCarryLate(m, x, y) ==
    LET sum == m.V[x] + m.V[y]
        m1 == [m EXCEPT !.V[15] = IF sum > 255 THEN 1 ELSE 0]
    IN [m1 EXCEPT !.V[x] = (m1.V[x] + m1.V[y]) % 256]

\* 8XY4
AddCarry(m, x, y) ==
    LET sum == m.V[x] + m.V[y]
        m1 == [m EXCEPT !.V[15] = IF sum > 255 THEN 1 ELSE 0]
    IN [m1 EXCEPT !.V[x] = sum % 256]

\* 8XY5
SubBorrow(m, x, y) ==
    LET m1 == [m EXCEPT !.V[15] = IF m.V[x] >= m.V[y] THEN 1 ELSE 0]
    IN [m1 EXCEPT !.V[x] = (m1.V[x] - m1.V[y]) % 256]

\* 8XY6
ShiftRight(m, x) ==
    LET m1 == [m EXCEPT !.V[15] = m.V[x] % 2]
    IN [m1 EXCEPT !.V[x] = m1.V[x] \div 2]

\* 8XY7
SubN(m, x, y) ==
    LET m1 == [m EXCEPT !.V[15] = IF m.V[y] >= m.V[x] THEN 1 ELSE 0]
    IN [m1 EXCEPT !.V[x] = (m1.V[y] - m1.V[x]) % 256]

\* 8XYE shifting the low bit out, as 8XY6 does
ShiftLeftLowBit(m, x) ==
    LET m1 == [m EXCEPT !.V[15] = m.V[x] % 2]
    IN [m1 EXCEPT !.V[x] = (m1.V[x] * 2) % 256]

\* 8XYE
ShiftLeft(m, x) ==
    LET m1 == [m EXCEPT !.V[15] = And8(m.V[x], \h80) \div 128]
    IN [m1 EXCEPT !.V[x] = (m1.V[x] * 2) % 256]

\* case 0x8 with every n above 7 taken for the shift-left
AluWide(m, x, y, n) ==
    CASE n = 0 -> [m EXCEPT !.V[x] = m.V[y]]
      [] n = 1 -> [m EXCEPT !.V[x] = Or8(m.V[x], m.V[y])]
      [] n = 2 -> [m EXCEPT !.V[x] = And8(m.V[x], m.V[y])]
      [] n = 3 -> [m EXCEPT !.V[x] = Xor8(m.V[x], m.V[y])]
      [] n = 4 -> AddCarry(m, x, y)
      [] n = 5 -> SubBorrow(m, x, y)
      [] n = 6 -> ShiftRight(m, x)
      [] n = 7 -> SubN(m, x, y)
      [] OTHER -> ShiftLeft(m, x)

\* case 0x8
Alu(m, x, y, n) ==
    CASE n = 0 -> [m EXCEPT !.V[x] = m.V[y]]
      [] n = 1 -> [m EXCEPT !.V[x] = Or8(m.V[x], m.V[y])]
      [] n = 2 -> [m EXCEPT !.V[x] = And8(m.V[x], m.V[y])]
      [] n = 3 -> [m EXCEPT !.V[x] = Xor8(m.V[x], m.V[y])]
      [] n = 4 -> AddCarry(m, x, y)
      [] n = 5 -> SubBorrow(m, x, y)
      [] n = 6 -> ShiftRight(m, x)
      [] n = 7 -> SubN(m, x, y)
      [] n = \hE -> ShiftLeft(m, x)
      [] OTHER -> m

\* ANNN
LoadIndex(m, nnn) == [m EXCEPT !.I = nnn]

\* BNNN
JumpOffset(m, nnn) == [m EXCEPT !.pc = nnn + m.V[0]]

\* CXNN; r is rand() % 256
Random(m, x, nn, r) == [m EXCEPT !.V[x] = And8(r, nn)]

\* DXYN, line 404: the gfx index of sprite bit (row, col)
DrawIndex(x_coord, y_coord, row, col) ==
    (x_coord + col) + ((y_coord + row) * SCREEN_WIDTH)

\* DXYN, lines 405-409: one set sprite bit
DrawPixel(m, index, u) ==
    LET m1 == IF GfxRead(m, index, u) = 1 THEN [m EXCEPT !.V[15] = 1] ELSE m
    IN GfxFlip(m1, index, u)

\* DXYN, the loop over the columns of one sprite byte
RECURSIVE DrawCols(_, _, _, _, _, _, _)
DrawCols(m, pixel, x_coord, y_coord, row, col, u) ==
    IF col >= 8 THEN m
    ELSE LET m1 == IF Bit(pixel, 7 - col) # 0
                   THEN DrawPixel(m, DrawIndex(x_coord, y_coord, row, col), u)
                   ELSE m
         IN DrawCols(m1, pixel, x_coord, y_coord, row, col + 1, u)

\* DXYN, the loop over the rows
RECURSIVE DrawRows(_, _, _, _, _, _)
DrawRows(m, x_coord, y_coord, height, row, u) ==
    IF row >= height THEN m
    ELSE LET pixel == MemRead(m, m.I + row, u)
         IN DrawRows(DrawCols(m, pixel, x_coord, y_coord, row, 0, u),
                     x_coord, y_coord, height, row + 1, u)

\* DXYN
Draw(m, x, y, n, u) ==
    LET x_coord == m.V[x] % SCREEN_WIDTH
        y_coord == m.V[y] % SCREEN_HEIGHT
    IN DrawRows([m EXCEPT !.V[15] = 0], x_coord, y_coord, n, 0, u)

\* EX9E, EXA1 with the two tests exchanged
SkipKeySwapped(m, x, nn, u) ==
    IF nn = \h9E THEN Skip(m, KeyRead(m, m.V[x], u) = 0)
    ELSE IF nn = \hA1 THEN Skip(m, KeyRead(m, m.V[x], u) # 0)
    ELSE m

\* EX9E, EXA1
SkipKey(m, x, nn, u) ==
    IF nn = \h9E THEN Skip(m, KeyRead(m, m.V[x], u) # 0)
    ELSE IF nn = \hA1 THEN Skip(m, KeyRead(m, m.V[x], u) = 0)
    ELSE m

\* FX1E
AddIndex(m, x) ==
    LET m1 == [m EXCEPT !.V[15] = IF m.I + m.V[x] > \hFFF THEN 1 ELSE 0]
    IN [m1 EXCEPT !.I = (m1.I + m1.V[x]) % 4096]

\* FX29
FontAddr(m, x) == [m EXCEPT !.I = \h050 + (m.V[x] * 5)]

\* FX33
StoreBcd(m, x, u) ==
    LET m1 == MemWrite(m, m.I, m.V[x] \div 100, u)
        m2 == MemWrite(m1, m1.I + 1, (m1.V[x] \div 10) % 10, u)
    IN MemWrite(m2, m2.I + 2, m2.V[x] % 10, u)

\* FX55: for (i = 0; i <= x; i++) memory[I + i] = V[i]
RECURSIVE RegDump(_, _, _, _)
RegDump(m, x, i, u) ==
    IF i > x THEN m
    ELSE RegDump(MemWrite(m, m.I + i, m.V[i], u), x, i + 1, u)

\* FX65: for (i = 0; i <= x; i++) V[i] = memory[I + i]
RECURSIVE RegLoad(_, _, _, _)
RegLoad(m, x, i, u) ==
    IF i > x THEN m
    ELSE RegLoad([m EXCEPT !.V[i] = MemRead(m, m.I + i, u)], x, i + 1, u)

\* case 0xF; FX0A leaves the machine to the wait loop
Misc(m, x, nn, u) ==
    CASE nn = \h07 -> [m EXCEPT !.V[x] = m.delay_timer]
      [] nn = \h15 -> [m EXCEPT !.delay_timer = m.V[x]]
      [] nn = \h18 -> [m EXCEPT !.sound_timer = m.V[x]]
      [] nn = \h1E -> AddIndex(m, x)
      [] nn = \h29 -> FontAddr(m, x)
      [] nn = \h33 -> StoreBcd(m, x, u)
      [] nn = \h55 -> RegDump(m, x, 0, u)
      [] nn = \h65 -> RegLoad(m, x, 0, u)
      [] OTHER -> m

----------------------------------------------------------------------------
(* Fetch, decode, execute.                                                 *)

\* lines 205-209: the opcode this cycle executes; no fetch leaves the old one
Fetched(m) == m.pc + 1 < MemSize

FetchOpcode(m, old) ==
    IF Fetched(m) THEN (m.memory[m.pc] * 256) + m.memory[m.pc + 1] ELSE old

FetchAdvance(m) ==
    IF Fetched(m) THEN [m EXCEPT !.pc = m.pc + 2] ELSE m

\* The exits of a switch that has no case 0x9
FaultNoCase9(m, op) ==
    CASE Op_verify(op) = 2 /\ ~(m.sp < StackSize) -> "overflow"
      [] Op_verify(op) \notin (0 .. 15) \ {9} -> "unknown"
      [] OTHER -> ""

\* The exit(1) of the switch: "" when the instruction does not leave the process.
Fault(m, op) ==
    CASE Op_verify(op) = 2 /\ ~(m.sp < StackSize) -> "overflow"
      [] Op_verify(op) \notin 0 .. 15 -> "unknown"
      [] OTHER -> ""

\* FX0A
WaitsForKey(op) == Op_verify(op) = 15 /\ Op_nn(op) = \h0A

\* switch (verify)
Execute(m, op, r, u) ==
    LET n == Op_n(op)
        nn == Op_nn(op)
        nnn == Op_nnn(op)
        x == Op_x(op)
        y == Op_y(op)
        verify == Op_verify(op)
    IN CASE verify = 0 -> IF op = \h00E0 THEN ClearScreen(m)
                          ELSE IF op = \h00EE THEN Return(m)
                          ELSE m
         [] verify = 1 -> Jump(m, nnn)
         [] verify = 2 -> IF m.sp < StackSize THEN Call(m, nnn) ELSE m
         [] verify = 3 -> Skip(m, m.V[x] = nn)
         [] verify = 4 -> Skip(m, m.V[x] # nn)
         [] verify = 5 -> Skip(m, m.V[x] = m.V[y])
         [] verify = 6 -> LoadImm(m, x, nn)
         [] verify = 7 -> AddImm(m, x, nn)
         [] verify = 8 -> Alu(m, x, y, n)
         [] verify = 9 -> Skip(m, m.V[x] # m.V[y])
         [] verify = \hA -> LoadIndex(m, nnn)
         [] verify = \hB -> JumpOffset(m, nnn)
         [] verify = \hC -> Random(m, x, nn, r)
         [] verify = \hD -> Draw(m, x, y, n, u)
         [] verify = \hE -> SkipKey(m, x, nn, u)
         [] verify = \hF -> Misc(m, x, nn, u)
         [] OTHER -> m

RandBytes == {(k * 85) % 256 : k \in 0 .. MaxRand}

Snapshot(op) == [op |-> op, pc |-> pc, V |-> V, I |-> I, sp |-> sp]

Push(h, s) == IF Len(h) < 2 THEN Append(h, s) ELSE <<h[2], s>>

\* The addresses at which the instruction indexes memory, apart from its fetch.
MemAddrs(m, op) ==
    CASE Op_verify(op) = \hD -> {m.I + row : row \in 0 .. (Op_n(op) - 1)}
      [] Op_verify(op) = \hF /\ Op_nn(op) = \h33 -> {m.I, m.I + 1, m.I + 2}
      [] Op_verify(op) = \hF /\ Op_nn(op) \in {\h55, \h65} ->
            {m.I + i : i \in 0 .. Op_x(op)}
      [] OTHER -> {}

\* The gfx indices DXYN computes for the bits of an n-row sprite.
GfxIndices(m, op) ==
    IF Op_verify(op) = \hD
    THEN {DrawIndex(m.V[Op_x(op)] % SCREEN_WIDTH, m.V[Op_y(op)] % SCREEN_HEIGHT, row, col) :
             row \in 0 .. (Op_n(op) - 1), col \in 0 .. 7}
    ELSE {}

\* The key indices EX9E and EXA1 read.
KeyIndices(m, op) ==
    IF Op_verify(op) = \hE /\ Op_nn(op) \in {\h9E, \hA1} THEN {m.V[Op_x(op)]} ELSE {}

\* Whether the instruction may index past the end of an array.
PastTheEnd(m, op) ==
    \/ \E a \in MemAddrs(m, op) : a >= MemSize
    \/ \E g \in GfxIndices(m, op) : g >= GfxSize
    \/ \E k \in KeyIndices(m, op) : k >= NumKeys

\* The outcomes of the instruction's undefined behaviour, one when it has none.
Outcomes(m, op) ==
    IF PastTheEnd(m, op) THEN UB ELSE {[alias |-> TRUE, byte |-> 0]}

\* The values rand() % 256 may return to the instruction; only CXNN calls it.
RandInputs(op) == IF Op_verify(op) = \hC THEN RandBytes ELSE {0}

\* One pass of the loop body from the fetch to SDL_Delay(16).
Cpu ==
    /\ loc = "cpu"
    /\ LET op == FetchOpcode(chip8, opcode)
           m0 == FetchAdvance(chip8)
           exit == Fault(m0, op)
       IN \E r \in RandInputs(op), u \in Outcomes(m0, op) :
            LET m1 == IF exit = "" THEN Execute(m0, op, r, u) ELSE m0
            IN /\ opcode' = op
               /\ hist' = Push(hist, Snapshot(op))
               /\ nest' = IF exit = "" /\ Op_verify(op) = 2 THEN nest + 1
                          ELSE IF op = \h00EE THEN nest - 1
                          ELSE nest
               /\ memory' = m1.memory
               /\ V' = m1.V
               /\ I' = m1.I
               /\ pc' = m1.pc
               /\ delay_timer' = m1.delay_timer
               /\ sound_timer' = m1.sound_timer
               /\ gfx' = m1.gfx
               /\ key' = m1.key
               /\ stack' = m1.stack
               /\ sp' = m1.sp
               /\ loc' = IF exit # "" THEN exit
                         ELSE IF WaitsForKey(op) THEN "wait"
                         ELSE "timer"
               /\ elapsed' = IF exit = "" /\ ~WaitsForKey(op) THEN TRUE ELSE elapsed
               /\ event' = event
               /\ host' = host

\* FX0A, lines 479-490: a key press of the keypad stores its index in V[x].
WaitLatch(v, x, ev) == IF ev[1] = "keydown" THEN [v EXCEPT ![x] = ev[2]] ELSE v

\* FX0A: one pass of the inner while (SDL_PollEvent(&event)).  loc is "wait"
\* while key_pressed is 0 and "drain" once it is 1 and events are still pending.
WaitKey ==
    /\ loc \in {"wait", "drain"}
    /\ \E ev \in Events :
         /\ event' = ev
         /\ V' = WaitLatch(V, Op_x(opcode), ev)
         /\ loc' = IF ev[1] = "quit" THEN "quit"
                   ELSE IF ev[1] = "keydown" THEN "drain"
                   ELSE loc
    /\ UNCHANGED <<memory, I, pc, delay_timer, sound_timer, gfx, key, stack, sp,
                   opcode, elapsed, hist, nest, host>>

\* FX0A: no event is pending and key_pressed is 1; both loops end, SDL_Delay(16).
WaitDone ==
    /\ loc = "drain"
    /\ loc' = "timer"
    /\ elapsed' = TRUE
    /\ event' = NoEvent
    /\ UNCHANGED <<memory, V, I, pc, delay_timer, sound_timer, gfx, key, stack, sp,
                   opcode, hist, nest, host>>

Next == TimerUpdate \/ HandleInput \/ InputDone \/ Cpu \/ WaitKey \/ WaitDone

Spec == Init /\ [][Next]_vars

\* The process runs on: each step of main that needs no host event is taken
\* in the end.  The host owes no event, so no fairness is assumed of
\* HandleInput and WaitKey.
Fairness ==
    /\ WF_vars(TimerUpdate)
    /\ WF_vars(InputDone)
    /\ WF_vars(Cpu)
    /\ WF_vars(WaitDone)

\* The runs of the programs that set a timer.
TimerRoms == {RomKeys, RomUnknown, RomTimers, RomWaitTimer}

InitTimers == Init /\ \E rom \in TimerRoms : memory = LoadRom(rom)

FairSpec == InitTimers /\ [][Next]_vars /\ Fairness

----------------------------------------------------------------------------
(* Properties.  Last is the instruction the machine executed last, with    *)
(* the registers it found; the state variables hold what it left.          *)

Last == hist[Len(hist)]

\* The last instruction has run to its end (FX0A is still inside its loop
\* at "wait" and "drain").
Ran == Len(hist) > 0 /\ loc \in {"timer", "input", "cpu", "quit"}

Is8XYn(h, n) == Op_verify(h.op) = 8 /\ Op_n(h.op) = n

\* C1: a call (2NNN) at address a with fewer than 16 entries on the stack,
\* followed by its return (00EE), leaves pc = a + 2 and sp as before the call.
CallThenReturn ==
    (/\ Ran
     /\ Len(hist) = 2
     /\ Op_verify(hist[1].op) = 2
     /\ Fetched(hist[1])
     /\ hist[1].sp < StackSize
     /\ hist[2].op = \h00EE
     /\ Fetched(hist[2]))
    => (pc = hist[1].pc + 2 /\ sp = hist[1].sp)

\* C2: the stack pointer stays within 0 .. 16 in every reachable state.
StackPointerInRange == sp \in 0 .. StackSize

\* C3: a cycle that begins with pc + 1 >= 4096 halts the machine and changes
\* no register, memory, stack or framebuffer value.
Halted == loc \in {"overflow", "unknown"}

NoFetchFaults ==
    [][(loc = "cpu" /\ ~(pc + 1 < MemSize))
        => (Halted' /\ UNCHANGED <<memory, V, I, pc, gfx, stack, sp>>)]_vars

\* C4: every address at which draw, BCD store, register dump and register
\* load index memory lies in 0 .. 4095.
AddressesMasked ==
    loc = "cpu"
    => \A a \in MemAddrs(FetchAdvance(chip8), FetchOpcode(chip8, opcode)) :
          a \in 0 .. (MemSize - 1)

\* The pixel of sprite bit (row, col) on the 64 x 32 grid, wrapped at its edges.
WrappedPixel(vx, vy, row, col) ==
    ((vx + col) % SCREEN_WIDTH) + (((vy + row) % SCREEN_HEIGHT) * SCREEN_WIDTH)

\* The set bits (row, col) of the n-row sprite at memory[I .. I + n - 1].
SpriteBits(n) ==
    {rc \in (0 .. (n - 1)) \X (0 .. 7) : Bit(memory[I + rc[1]], 7 - rc[2]) = 1}

\* The sprite of the draw about to run lies inside memory.
SpriteInMemory(op) == I + Op_n(op) <= MemSize

\* C5: a draw (DXYN) of a sprite that lies inside memory inverts exactly the
\* pixels under the set bits of the sprite and leaves VF = 1 if one of them
\* was set before, VF = 0 otherwise.
DrawXorCollision ==
    [][(/\ loc = "cpu"
        /\ Fetched(chip8)
        /\ Op_verify(opcode') = \hD
        /\ SpriteInMemory(opcode'))
        => LET x == Op_x(opcode')
               y == Op_y(opcode')
               hit == {WrappedPixel(V[x], V[y], rc[1], rc[2]) :
                          rc \in SpriteBits(Op_n(opcode'))}
           IN /\ gfx' = [p \in 0 .. (GfxSize - 1) |->
                            IF p \in hit THEN 1 - gfx[p] ELSE gfx[p]]
              /\ V'[15] = IF \E p \in hit : gfx[p] = 1 THEN 1 ELSE 0]_vars

\* C6: the gfx index a draw (DXYN) computes for a set bit (row, col) of a
\* sprite that lies inside memory is the pixel at column (V[x] + col) mod 64
\* and row (V[y] + row) mod 32, so it lies in 0 .. 2047.
DrawIndexWraps ==
    (/\ loc = "cpu"
     /\ Fetched(chip8)
     /\ Op_verify(FetchOpcode(chip8, opcode)) = \hD
     /\ SpriteInMemory(FetchOpcode(chip8, opcode)))
    => LET op == FetchOpcode(chip8, opcode)
           x == Op_x(op)
           y == Op_y(op)
       IN \A rc \in SpriteBits(Op_n(op)) :
             /\ DrawIndex(V[x] % SCREEN_WIDTH, V[y] % SCREEN_HEIGHT, rc[1], rc[2])
                   = WrappedPixel(V[x], V[y], rc[1], rc[2])
             /\ DrawIndex(V[x] % SCREEN_WIDTH, V[y] % SCREEN_HEIGHT, rc[1], rc[2])
                   \in 0 .. (GfxSize - 1)

\* C7: after add-with-carry (8XY4) with x # 15, VF = 1 if V[x] + V[y] > 255
\* and 0 otherwise, and V[x] = (V[x] + V[y]) mod 256, of the values before.
AddCarryCorrect ==
    (Ran /\ Is8XYn(Last, 4) /\ Op_x(Last.op) # 15)
    => LET a == Last.V[Op_x(Last.op)]
           b == Last.V[Op_y(Last.op)]
       IN /\ V[15] = IF a + b > 255 THEN 1 ELSE 0
          /\ V[Op_x(Last.op)] = (a + b) % 256

\* An add with x # 15 and y = 15 that carried has run.
AddCarryWitness ==
    /\ Ran
    /\ Is8XYn(Last, 4)
    /\ Op_x(Last.op) # 15
    /\ Op_y(Last.op) = 15
    /\ Last.V[Op_x(Last.op)] + Last.V[15] > 255
    /\ Last.V[15] > 1

\* C8: after sub-with-borrow (8XY5) with x # 15, VF = 1 if V[x] >= V[y] and
\* 0 otherwise, and V[x] = (V[x] - V[y]) mod 256, of the values before.
SubBorrowCorrect ==
    (Ran /\ Is8XYn(Last, 5) /\ Op_x(Last.op) # 15)
    => LET a == Last.V[Op_x(Last.op)]
           b == Last.V[Op_y(Last.op)]
       IN /\ V[15] = IF a >= b THEN 1 ELSE 0
          /\ V[Op_x(Last.op)] = (a - b) % 256

\* C9: with x # 15 and v the value of V[x] before, shift-right (8XY6) leaves
\* VF = v mod 2 and V[x] = v div 2, and shift-left (8XYE) leaves VF = v div 128
\* and V[x] = 2 v mod 256, whatever V[y] holds.
ShiftsCorrect ==
    (Ran /\ Op_x(Last.op) # 15)
    => LET v == Last.V[Op_x(Last.op)]
       IN /\ Is8XYn(Last, 6)
                => (V[15] = v % 2 /\ V[Op_x(Last.op)] = v \div 2)
          /\ Is8XYn(Last, 14)
                => (V[15] = v \div 128 /\ V[Op_x(Last.op)] = (2 * v) % 256)

\* A shift-left of a value with its high bit set has run, V[y] being another
\* register with another value.
ShiftsWitness ==
    /\ Ran
    /\ Is8XYn(Last, 14)
    /\ Op_x(Last.op) # 15
    /\ Op_y(Last.op) # Op_x(Last.op)
    /\ Last.V[Op_x(Last.op)] >= 128
    /\ Last.V[Op_y(Last.op)] # Last.V[Op_x(Last.op)]
    /\ V[15] = 1

\* C10: a register dump (FX55) followed at once by a register load (FX65)
\* with the same x and the same I leaves every register and I as they were
\* before the dump.
DumpLoadRestores ==
    (/\ Ran
     /\ Len(hist) = 2
     /\ Op_verify(hist[1].op) = \hF /\ Op_nn(hist[1].op) = \h55
     /\ Op_verify(hist[2].op) = \hF /\ Op_nn(hist[2].op) = \h65
     /\ Op_x(hist[2].op) = Op_x(hist[1].op)
     /\ hist[1].I \in 0 .. \hFFF)
    => (V = hist[1].V /\ hist[2].I = hist[1].I /\ I = hist[1].I)

\* The instruction the cycle about to run fetches is FXnn.
RunsFXnn(nn) ==
    /\ loc = "cpu"
    /\ Fetched(chip8)
    /\ Op_verify(FetchOpcode(chip8, opcode)) = \hF
    /\ Op_nn(FetchOpcode(chip8, opcode)) = nn

\* C11: a BCD store (FX33) of v = V[x] leaves the hundreds, tens and ones
\* digits of v in memory[I], memory[I + 1], memory[I + 2] (addresses of the
\* 4096-byte memory, taken to 12 bits) and changes no other memory byte and
\* no register.
StoreBcdCorrect ==
    [][RunsFXnn(\h33)
        => LET v == V[Op_x(opcode')]
               digits == << v \div 100, (v \div 10) % 10, v % 10 >>
               at == [k \in 0 .. 2 |-> (I + k) % MemSize]
           IN /\ \A k \in 0 .. 2 : memory'[at[k]] = digits[k + 1]
              /\ \A a \in DOMAIN memory :
                    a \notin {at[0], at[1], at[2]} => memory'[a] = memory[a]
              /\ V' = V
              /\ I' = I]_vars

\* The instruction the cycle about to run fetches is EXnn.
RunsEXnn(nn) ==
    /\ loc = "cpu"
    /\ Fetched(chip8)
    /\ Op_verify(FetchOpcode(chip8, opcode)) = \hE
    /\ Op_nn(FetchOpcode(chip8, opcode)) = nn

\* C12: with V[x] = k in 0 .. 15, skip-if-key-down (EX9E) at address a leaves
\* pc = a + 4 when key k is down in the latch and pc = a + 2 when it is not,
\* skip-if-key-up (EXA1) does the opposite, and neither writes the latch.
KeySkipsCorrect ==
    [][((RunsEXnn(\h9E) \/ RunsEXnn(\hA1)) /\ V[Op_x(opcode')] \in 0 .. (NumKeys - 1))
        => LET down == key[V[Op_x(opcode')]] # 0
               skips == IF Op_nn(opcode') = \h9E THEN down ELSE ~down
           IN /\ pc' = IF skips THEN pc + 4 ELSE pc + 2
              /\ key' = key]_vars

\* A skip-if-key-down of a key that is down has just run and has skipped.
KeySkipsWitness ==
    /\ Ran
    /\ loc = "timer"
    /\ Op_verify(Last.op) = \hE
    /\ Op_nn(Last.op) = \h9E
    /\ Last.V[Op_x(Last.op)] \in 0 .. (NumKeys - 1)
    /\ key[Last.V[Op_x(Last.op)]] = 1
    /\ pc = Last.pc + 4

\* The opcodes of the groups 0, 8, E and F that no branch of the group names.
UnknownSecondary(op) ==
    \/ Op_verify(op) = 0 /\ op \notin {\h00E0, \h00EE}
    \/ Op_verify(op) = 8 /\ Op_n(op) \notin (0 .. 7) \cup {\hE}
    \/ Op_verify(op) = \hE /\ Op_nn(op) \notin {\h9E, \hA1}
    \/ Op_verify(op) = \hF
          /\ Op_nn(op) \notin {\h07, \h0A, \h15, \h18, \h1E, \h29, \h33, \h55, \h65}

\* C13: an opcode of a known group whose secondary selector is not defined
\* advances pc by 2 from its address, lets execution continue and changes no
\* register, I, stack, sp, timer, memory byte or pixel.
UnknownSecondaryNoOp ==
    [][(loc = "cpu" /\ Fetched(chip8) /\ UnknownSecondary(FetchOpcode(chip8, opcode)))
        => /\ pc' = pc + 2
           /\ loc' = "timer"
           /\ UNCHANGED <<V, I, stack, sp, delay_timer, sound_timer, memory, gfx>>]_vars

\* 8XY8 has just run on a machine with a call outstanding, a register with
\* its high bit set, running timers and a lit pixel.
UnknownSecondaryWitness ==
    /\ Ran
    /\ loc = "timer"
    /\ Is8XYn(Last, 8)
    /\ pc = Last.pc + 2
    /\ sp = 1
    /\ V[Op_x(Last.op)] >= 128
    /\ delay_timer > 0
    /\ \E p \in DOMAIN gfx : gfx[p] = 1

\* C14: a call (2NNN) at address a halts the machine with the stack-overflow
\* fault exactly when the calls executed so far minus the returns equal 16;
\* with fewer than 16 outstanding it does not halt, pushes a + 2 on the stack
\* and jumps to nnn.
CallOverflowExact ==
    [][(loc = "cpu" /\ Fetched(chip8) /\ Op_verify(FetchOpcode(chip8, opcode)) = 2)
        => /\ (loc' = "overflow") <=> (nest = StackSize)
           /\ nest < StackSize
                 => /\ loc' = "timer"
                    /\ sp \in DOMAIN stack
                    /\ stack'[sp] = pc + 2
                    /\ pc' = Op_nnn(opcode')]_vars

\* A timer tick: the timer update of a loop pass that finds 16 ms elapsed.
Tick == loc = "timer" /\ elapsed

\* The cycle about to run executes FXnn (fetched, or left from the cycle before).
ExecutesFXnn(nn) ==
    /\ loc = "cpu"
    /\ Op_verify(FetchOpcode(chip8, opcode)) = \hF
    /\ Op_nn(FetchOpcode(chip8, opcode)) = nn

\* C15: a timer tick takes 1 from each timer that is positive and leaves a
\* timer that is 0 at 0, each by its own value alone; between ticks the delay
\* timer changes only when FX15 writes V[x] into it and the sound timer only
\* when FX18 does.
TimersIndependent ==
    [][/\ Tick => /\ delay_timer' = IF delay_timer > 0 THEN delay_timer - 1 ELSE 0
                  /\ sound_timer' = IF sound_timer > 0 THEN sound_timer - 1 ELSE 0
       /\ (~Tick /\ delay_timer' # delay_timer)
             => (ExecutesFXnn(\h15) /\ delay_timer' = V[Op_x(opcode')])
       /\ (~Tick /\ sound_timer' # sound_timer)
             => (ExecutesFXnn(\h18) /\ sound_timer' = V[Op_x(opcode')])]_vars

\* A tick has just left the delay timer at 0 and taken 1 from the sound
\* timer, which was set to 5 three instructions ago.
TimersWitness ==
    /\ loc = "input"
    /\ Len(hist) = 2
    /\ hist[1].op = \hF207
    /\ hist[2].op = \h1208
    /\ V[2] = 0
    /\ delay_timer = 0
    /\ sound_timer = 2

\* The machine is inside the loops of FX0A: waiting for a key press, or
\* with the press taken and the pending events not yet all polled.
Suspended == loc \in {"wait", "drain"}

\* C16: while wait-for-key (FX0A at address a) suspends the machine no
\* instruction executes and pc (a + 2), the registers other than V[x], I,
\* memory, stack and framebuffer do not change; a quit polled while
\* suspended ends the run; a key press k polled while waiting stores k in
\* V[x] and ends the wait, and V[x] is still k when execution resumes.
WaitForKeySuspends ==
    [][Suspended
        => LET x == Op_x(opcode)
           IN /\ UNCHANGED <<pc, I, memory, stack, sp, gfx, hist>>
              /\ \A r \in Regs \ {x} : V'[r] = V[r]
              /\ Fetched(Last) => pc = Last.pc + 2
              /\ event'[1] = "quit" => loc' = "quit"
              /\ event'[1] # "keydown" => V' = V
              /\ (loc = "wait" /\ event'[1] = "keydown")
                    => (V'[x] = event'[2] /\ loc' = "drain")
              /\ loc = "wait" => loc' # "timer"
              /\ (loc = "drain" /\ loc' # "quit") => V'[x] = V[x]]_vars

\* The process has ended: exit(0) on a quit event, or exit(1) on a fault.
Stopped == loc \in {"quit", "overflow", "unknown"}

\* C17: timer ticks come with elapsed time in every state of a running
\* machine, also while it is suspended in wait-for-key: a positive delay or
\* sound timer reaches zero in the end, unless the process ends first, even
\* if no key is ever pressed.  (No program of TimerRoms sets a timer twice.)
TimersRunDown ==
    /\ (delay_timer > 0) ~> (delay_timer = 0 \/ Stopped)
    /\ (sound_timer > 0) ~> (sound_timer = 0 \/ Stopped)

\* The addresses 0x050 .. 0x09F of the font table: 16 glyphs of 5 bytes.
FontTable == \h050 .. \h09F

\* C18: before the first instruction is fetched the font table at
\* 0x050 .. 0x09F is in memory (its bytes are not all zero), and font-address
\* (FX29) with V[x] = d in 0 .. 15 leaves I = 0x050 + 5 d, the first of the
\* 5 bytes of glyph d inside the table.
FontTableResident ==
    /\ Len(hist) = 0 => \E a \in FontTable : memory[a] # 0
    /\ (Ran /\ Op_verify(Last.op) = \hF /\ Op_nn(Last.op) = \h29
            /\ Last.V[Op_x(Last.op)] \in 0 .. 15)
          => /\ I = \h050 + (5 * Last.V[Op_x(Last.op)])
             /\ \A i \in 0 .. 4 : (I + i) \in FontTable

\* The flag 8XYn defines for the operands a = V[x] and b = V[y].
FlagOf(n, a, b) ==
    CASE n = 4 -> IF a + b > 255 THEN 1 ELSE 0
      [] n = 5 -> IF a >= b THEN 1 ELSE 0
      [] n = 6 -> a % 2
      [] n = 7 -> IF b >= a THEN 1 ELSE 0
      [] n = 14 -> a \div 128

\* C19: after add-with-carry (8XY4), sub-with-borrow (8XY5), shift-right
\* (8XY6), subn (8XY7) and shift-left (8XYE), for every x and y, x = 15
\* included, V[15] holds the flag the instruction defines for the values
\* V[x] and V[y] held before.
FlagLeftInVF ==
    \A n \in {4, 5, 6, 7, 14} :
       (Ran /\ Is8XYn(Last, n))
       => V[15] = FlagOf(n, Last.V[Op_x(Last.op)], Last.V[Op_y(Last.op)])

\* C20: no program reaches the unknown-opcode exit of the primary switch:
\* every opcode is dispatched to one of the groups 0x0 .. 0xF.  The only
\* fatal exit is the stack overflow of a call (2NNN), and every other end of
\* the process comes from a quit event.
NoUnknownOpcodeHalt ==
    /\ loc # "unknown"
    /\ loc = "overflow" => (Len(hist) > 0 /\ Op_verify(Last.op) = 2)
    /\ Stopped => (loc = "overflow" \/ (loc = "quit" /\ event[1] = "quit"))
    /\ loc = "cpu" => Op_verify(FetchOpcode(chip8, opcode)) \in 0 .. 15

\* The program with an instruction of each of the sixteen groups has run
\* to its last instruction, and the machine has not halted.
AllGroupsWitness ==
    /\ memory = LoadRom(RomAllGroups)
    /\ Ran
    /\ loc = "timer"
    /\ Len(hist) = 2
    /\ hist[1].op = \h6000
    /\ hist[2].op = \hB228
    /\ pc = \h228
    /\ sp = 1

====
